---- MODULE Spec2Model ----
(***************************************************************************)
(* Model of src/utils/audio.ts: the narration sequencer (speak and its     *)
(* playNextChunk chain over the platform speech engine) and the buffer     *)
(* playback lifecycle (playGlobalAudio, startSource, stopGlobalAudio,      *)
(* pauseGlobalAudio, resumeGlobalAudio over the shared audio context).     *)
(*                                                                         *)
(* Every exported function is a pure operator from the module state (a     *)
(* record S of the module-level variables and of the platform objects they *)
(* refer to) to the state after the call; an action applies one such       *)
(* operator, or one platform event handler, to the current state.          *)
(***************************************************************************)
EXTENDS Integers, Sequences, FiniteSets, TLC

\* ------------------------------------------------------------------ bounds
MaxSpeak == 2     \* speak calls in one behaviour
MaxPlay == 2      \* playGlobalAudio calls in one behaviour
MaxLen == 3       \* characters in a text passed to speak
MaxOps == 2       \* context control requests (resume/suspend) awaiting the platform
MaxInit == 2      \* initializeAudioUnlocker calls in one behaviour
MaxEvents == 3    \* touchstart/click/keydown events seen by one unlock handler
MaxBytes == 3     \* bytes in the data passed to decodeAudioData
MaxVoices == 2    \* voices in the list the speech engine reports
MaxContexts == 2  \* audio context instances constructed in one behaviour

VARIABLES
  supported,         \* 'speechSynthesis' in window (fixed per page)
  isStopped,         \* audio.ts:10
  activeUtterances,  \* audio.ts:9, utterance handles
  jobs,              \* one record per speak call: the closure of audio.ts:37-127
  synthQueue,        \* speech engine: utterances submitted and not yet finished
  synthCancelled,    \* speech engine: utterances removed by cancel(), event pending
  synthPaused,       \* window.speechSynthesis.paused
  ctxState,          \* globalAudioContext: "none" (null) or its .state
  ctxId,             \* identity of the context instance held (0: none yet)
  ctxOps,            \* resume()/suspend() promises not yet settled, in order
  globalSource,      \* audio.ts:132, 0 (null) or the play call whose source it is
  plays,             \* one record per playGlobalAudio call: its source and onEnded
  spoken,            \* text and chunks (audio.ts:37, 60) of the latest speak closure, if any
  unlockers,         \* one record per `unlock` closure (audio.ts:226): where it listens
  chosen,            \* targetLang and preferredVoice (audio.ts:78, 83) of the latest closure
  decoded            \* the latest decodeAudioData call, if any: arguments and outcome

vars == <<supported, isStopped, activeUtterances, jobs, synthQueue, synthCancelled,
          synthPaused, ctxState, ctxId, ctxOps, globalSource, plays, spoken,
          unlockers, chosen, decoded>>

\* ------------------------------------------------------------- text chunks
\* Characters are one-character strings; a text is a sequence of characters.
\* "U+0964" is the danda, named by code point.
Alphabet == {"a", " ", ".", "|", "U+0964"}

\* The character class of the regex at audio.ts:58. The three characters after
\* "|" in the source file are U+0440 U+0435 U+0434, named here by code point.
Terminals == {".", "!", "?", "|", "U+0440", "U+0435", "U+0434", "\n"}

\* What String.prototype.trim removes.
Whitespace == {" ", "\n", "\t", "\r"}

RECURSIVE RunEnd(_, _, _)
\* Last index of the maximal run, starting at p, of characters whose membership
\* in Terminals is `term`; p - 1 when the run is empty.
RunEnd(text, p, term) ==
  IF p > Len(text) \/ ((text[p] \in Terminals) # term) THEN p - 1
  ELSE RunEnd(text, p + 1, term)

RECURSIVE MatchAll(_, _)
\* text.match(/[^T]+(?:[T]+|$)/g) from position p: the successive matches.
MatchAll(text, p) ==
  IF p > Len(text) THEN <<>>
  ELSE IF text[p] \in Terminals THEN MatchAll(text, p + 1)
  ELSE LET e1 == RunEnd(text, p, FALSE)
           e2 == RunEnd(text, e1 + 1, TRUE)
       IN <<SubSeq(text, p, e2)>> \o MatchAll(text, e2 + 1)

RECURSIVE TrimLeft(_)
TrimLeft(c) ==
  IF c # <<>> /\ Head(c) \in Whitespace THEN TrimLeft(Tail(c)) ELSE c

RECURSIVE TrimRight(_)
TrimRight(c) ==
  IF c # <<>> /\ c[Len(c)] \in Whitespace THEN TrimRight(SubSeq(c, 1, Len(c) - 1)) ELSE c

Trim(c) == TrimRight(TrimLeft(c))

RECURSIVE DropEmpty(_)
DropEmpty(cs) ==
  IF cs = <<>> THEN <<>>
  ELSE IF Head(cs) = <<>> THEN DropEmpty(Tail(cs))
  ELSE <<Head(cs)>> \o DropEmpty(Tail(cs))

\* audio.ts:58-62: a null match result makes the whole text the only chunk.
Chunks(text) ==
  LET rawChunks == MatchAll(text, 1)
  IN IF rawChunks = <<>> THEN <<text>>
     ELSE DropEmpty([i \in 1..Len(rawChunks) |-> Trim(rawChunks[i])])

RECURSIVE TextsOfLen(_)
TextsOfLen(n) ==
  IF n = 0 THEN {<<>>}
  ELSE {Append(t, c) : t \in TextsOfLen(n - 1), c \in Alphabet}

Texts == UNION {TextsOfLen(n) : n \in 0..MaxLen}

\* The chunk-playing chain reads of the chunks only how many there are: one
\* text per chunk count stands for all the texts cut into that many chunks.
SpeakTexts ==
  {CHOOSE t \in Texts : Len(Chunks(t)) = n : n \in {Len(Chunks(t)) : t \in Texts}}

\* ------------------------------------------------------------ module state
Cur ==
  [isStopped |-> isStopped, activeUtterances |-> activeUtterances, jobs |-> jobs,
   synthQueue |-> synthQueue, synthCancelled |-> synthCancelled,
   synthPaused |-> synthPaused, ctxState |-> ctxState, ctxId |-> ctxId,
   ctxOps |-> ctxOps, globalSource |-> globalSource, plays |-> plays,
   spoken |-> spoken, unlockers |-> unlockers, chosen |-> chosen]

Commit(s) ==
  /\ isStopped' = s.isStopped
  /\ activeUtterances' = s.activeUtterances
  /\ jobs' = s.jobs
  /\ synthQueue' = s.synthQueue
  /\ synthCancelled' = s.synthCancelled
  /\ synthPaused' = s.synthPaused
  /\ ctxState' = s.ctxState
  /\ ctxId' = s.ctxId
  /\ ctxOps' = s.ctxOps
  /\ globalSource' = s.globalSource
  /\ plays' = s.plays
  /\ spoken' = s.spoken
  /\ unlockers' = s.unlockers
  /\ chosen' = s.chosen
  /\ UNCHANGED <<supported, decoded>>

RECURSIVE Without(_, _)
\* arr.filter(u => u !== x)
Without(arr, x) ==
  IF arr = <<>> THEN <<>>
  ELSE IF Head(arr) = x THEN Without(Tail(arr), x)
  ELSE <<Head(arr)>> \o Without(Tail(arr), x)

Range(f) == {f[i] : i \in DOMAIN f}

\* ----------------------------------------------------------- speech engine
\* window.speechSynthesis.cancel(): every queued utterance leaves the queue; the
\* engine still owes each of them its end or error event.
synthCancel(s) ==
  [s EXCEPT !.synthQueue = <<>>,
            !.synthCancelled = @ \cup Range(s.synthQueue)]

\* audio.ts:2-6
stopNativeAudio(s) == IF supported THEN synthCancel(s) ELSE s

\* ------------------------------------------------------- buffer playback
\* source.stop() on the recorded source: a playing source stops and its ended
\* event is dispatched later; on any other source the call has no effect (a
\* throw is swallowed at audio.ts:388-390).
sourceStop(s, p) ==
  IF s.plays[p].status = "playing" THEN [s EXCEPT !.plays[p].status = "stopping"] ELSE s

\* The branch without the globalSource.onended = null of audio.ts:387.
stopSourceKeepsHandler(s) ==
  LET p == s.globalSource
      s2 == sourceStop(s, p)
  IN [s2 EXCEPT !.globalSource = 0]

\* audio.ts:386-393, the branch taken when globalSource is not null
stopSource(s) ==
  LET p == s.globalSource
      s1 == [s EXCEPT !.plays[p].handler = FALSE]
      s2 == sourceStop(s1, p)
  IN [s2 EXCEPT !.globalSource = 0]

\* Job j has not invoked its onEnd yet.
jobRunning(job) == job.onEndCalls = 0

\* The source of the play call is still to start, or has started and its ended
\* event is still to come.
playPending(play) == play.status \in {"deferred", "playing", "stopping"}

\* History only: a stop request is made while these calls are in progress.
markStopped(s) ==
  [s EXCEPT !.jobs = [j \in DOMAIN s.jobs |->
                        [s.jobs[j] EXCEPT !.stopSeen = @ \/ jobRunning(s.jobs[j])]],
            !.plays = [p \in DOMAIN s.plays |->
                        [s.plays[p] EXCEPT !.stopSeen = @ \/ playPending(s.plays[p])]]]

\* stopGlobalAudio without the isStopped = true of audio.ts:383.
stopGlobalAudioKeepsFlag(s) ==
  LET s2 == stopNativeAudio(markStopped(s))
  IN IF s2.globalSource # 0 THEN stopSource(s2) ELSE s2

\* stopGlobalAudio that also suspends a running context, as pauseGlobalAudio
\* does.
stopGlobalAudioSuspends(s) ==
  LET s1 == [markStopped(s) EXCEPT !.isStopped = TRUE]
      s2 == stopNativeAudio(s1)
      s3 == IF s2.globalSource # 0 THEN stopSource(s2) ELSE s2
  IN IF s3.ctxState = "running"
     THEN [s3 EXCEPT !.ctxOps = Append(@, [op |-> "suspend", ctx |-> s3.ctxId, play |-> 0])]
     ELSE s3

\* audio.ts:382-394
stopGlobalAudio(s) ==
  LET s1 == [markStopped(s) EXCEPT !.isStopped = TRUE]
      s2 == stopNativeAudio(s1)
  IN IF s2.globalSource # 0 THEN stopSource(s2) ELSE s2

\* ------------------------------------------------------------- narration
Utt(j, i) == [job |-> j, chunk |-> i]

\* audio.ts:90-124, for the job (closure) j
playNextChunk(s, j) ==
  LET job == s.jobs[j]
  IN IF s.isStopped \/ job.currentIndex >= job.n
     THEN [s EXCEPT !.activeUtterances = <<>>,
                    !.jobs[j].onEndCalls = @ + 1]
     ELSE LET u == Utt(j, job.currentIndex)
          IN [s EXCEPT !.activeUtterances = Append(@, u),
                       !.synthQueue = Append(@, u),
                       !.jobs[j].submitted = Append(@, job.currentIndex)]

\* The handlers without the currentIndex++ of audio.ts:111 and 118.
onUtteranceDoneNoAdvance(s, u, err) ==
  LET s1 == [s EXCEPT !.activeUtterances = Without(@, u),
                      !.jobs[u.job].delivered = @ \cup {u.chunk},
                      !.jobs[u.job].errored = IF err THEN @ \cup {u.chunk} ELSE @]
  IN playNextChunk(s1, u.job)

\* The handlers with an onerror that gives the narration up: it clears the
\* utterance list and calls onEnd instead of going on to the next chunk.
onUtteranceDoneErrorAborts(s, u, err) ==
  LET s1 == [s EXCEPT !.activeUtterances = Without(@, u),
                      !.jobs[u.job].currentIndex = @ + 1,
                      !.jobs[u.job].delivered = @ \cup {u.chunk},
                      !.jobs[u.job].errored = IF err THEN @ \cup {u.chunk} ELSE @]
  IN IF err
     THEN [s1 EXCEPT !.activeUtterances = <<>>, !.jobs[u.job].onEndCalls = @ + 1]
     ELSE playNextChunk(s1, u.job)

\* The handlers with an onerror that only logs and drops the utterance: the
\* chain is not continued after an error.
onUtteranceDoneErrorStalls(s, u, err) ==
  LET s1 == [s EXCEPT !.activeUtterances = Without(@, u),
                      !.jobs[u.job].delivered = @ \cup {u.chunk},
                      !.jobs[u.job].errored = IF err THEN @ \cup {u.chunk} ELSE @]
      s2 == [s1 EXCEPT !.jobs[u.job].currentIndex = @ + 1]
  IN IF err THEN s1 ELSE playNextChunk(s2, u.job)

\* audio.ts:109-113 (utterance.onend, err = FALSE) and 115-120
\* (utterance.onerror, err = TRUE, which also logs). delivered and errored are
\* history: the chunks whose event has been handled, and those whose utterance
\* failed (err).
onUtteranceDone(s, u, err) ==
  LET s1 == [s EXCEPT !.activeUtterances = Without(@, u),
                      !.jobs[u.job].currentIndex = @ + 1,
                      !.jobs[u.job].delivered = @ \cup {u.chunk},
                      !.jobs[u.job].errored = IF err THEN @ \cup {u.chunk} ELSE @]
  IN playNextChunk(s1, u.job)

NewJob(n) ==
  [n |-> n, currentIndex |-> 0, onEndCalls |-> 0, submitted |-> <<>>,
   delivered |-> {}, errored |-> {}, stopSeen |-> FALSE]

\* speak with the return of audio.ts:66 missing: after onEnd() for an empty
\* chunk list the chain is started all the same.
speakFallsThrough(s, text) ==
  IF ~supported
  THEN [s EXCEPT !.jobs = Append(@, [NewJob(0) EXCEPT !.onEndCalls = 1])]
  ELSE LET s1 == IF s.synthPaused THEN [s EXCEPT !.synthPaused = FALSE] ELSE s
           s2 == stopGlobalAudio(s1)
           s3 == synthCancel(s2)
           s4 == [s3 EXCEPT !.activeUtterances = <<>>, !.isStopped = FALSE]
           chunks == Chunks(text)
           j == Len(s.jobs) + 1
           s5 == [s4 EXCEPT !.jobs = Append(@, NewJob(Len(chunks))),
                            !.spoken = <<[text |-> text, chunks |-> chunks]>>]
       IN IF Len(chunks) = 0
          THEN playNextChunk([s5 EXCEPT !.jobs[j].onEndCalls = @ + 1], j)
          ELSE playNextChunk(s5, j)

\* audio.ts:37-127
speak(s, text) ==
  IF ~supported
  THEN [s EXCEPT !.jobs = Append(@, [NewJob(0) EXCEPT !.onEndCalls = 1])]
  ELSE LET s1 == IF s.synthPaused THEN [s EXCEPT !.synthPaused = FALSE] ELSE s
           s2 == stopGlobalAudio(s1)
           s3 == synthCancel(s2)
           s4 == [s3 EXCEPT !.activeUtterances = <<>>, !.isStopped = FALSE]
           chunks == Chunks(text)
           j == Len(s.jobs) + 1
           s5 == [s4 EXCEPT !.jobs = Append(@, NewJob(Len(chunks))),
                            !.spoken = <<[text |-> text, chunks |-> chunks]>>]
       IN IF Len(chunks) = 0
          THEN [s5 EXCEPT !.jobs[j].onEndCalls = @ + 1]
          ELSE playNextChunk(s5, j)

\* ---------------------------------------------------------- voice selection
\* Language codes, locale tags and voice names are sequences of characters.
langMap ==
  (<<"e", "n">> :> <<"e", "n", "-", "U", "S">>) @@ (<<"t", "e">> :> <<"t", "e", "-", "I", "N">>) @@ (<<"h", "i">> :> <<"h", "i", "-", "I", "N">>) @@
  (<<"t", "a">> :> <<"t", "a", "-", "I", "N">>) @@ (<<"k", "n">> :> <<"k", "n", "-", "I", "N">>)

\* audio.ts:78
targetLangOf(language) ==
  IF language \in DOMAIN langMap THEN langMap[language] ELSE <<"e", "n", "-", "U", "S">>

\* String.prototype.includes
Includes(str, part) ==
  \E i \in 0..(Len(str) - Len(part)) : SubSeq(str, i + 1, i + Len(part)) = part

\* String.prototype.startsWith
StartsWith(str, prefix) ==
  Len(prefix) <= Len(str) /\ SubSeq(str, 1, Len(prefix)) = prefix

\* Array.prototype.find, as the index of the element found (0: undefined);
\* hits[i] tells whether the predicate holds of element i.
Find(hits) ==
  IF \E i \in DOMAIN hits : hits[i]
  THEN CHOOSE i \in DOMAIN hits : hits[i] /\ \A k \in 1..(i - 1) : ~hits[k]
  ELSE 0

\* The name markers of audio.ts:84.
QualityMarkers == {<<"G", "o", "o", "g", "l", "e">>, <<"E", "n", "h", "a", "n", "c", "e", "d">>, <<"P", "r", "e", "m", "i", "u", "m">>}

\* Voice selection that ignores the voice names (audio.ts:85-86 only).
preferredVoiceAnyName(voices, language) ==
  LET targetLang == targetLangOf(language)
      exact == [i \in DOMAIN voices |-> voices[i].lang = targetLang]
      prefix == [i \in DOMAIN voices |-> StartsWith(voices[i].lang, language)]
  IN IF Find(exact) # 0 THEN Find(exact)
     ELSE Find(prefix)

\* audio.ts:83-86: the index in `voices` of preferredVoice (0: undefined).
preferredVoice(voices, language) ==
  LET targetLang == targetLangOf(language)
      quality == [i \in DOMAIN voices |->
                    /\ voices[i].lang = targetLang
                    /\ \E m \in QualityMarkers : Includes(voices[i].name, m)]
      exact == [i \in DOMAIN voices |-> voices[i].lang = targetLang]
      prefix == [i \in DOMAIN voices |-> StartsWith(voices[i].lang, language)]
  IN IF Find(quality) # 0 THEN Find(quality)
     ELSE IF Find(exact) # 0 THEN Find(exact)
     ELSE Find(prefix)

\* audio.ts:37-127 with the language and the voice list that getVoices()
\* returns: the closure keeps targetLang and preferredVoice for all its chunks.
\* Nothing is selected on the early returns of lines 38-42 and 64-67.
speakIn(s, text, language, voices) ==
  LET s1 == speak(s, text)
  IN IF supported /\ Len(Chunks(text)) > 0
     THEN [s1 EXCEPT !.chosen = <<[language |-> language, voices |-> voices,
                                   targetLang |-> targetLangOf(language),
                                   voice |-> preferredVoice(voices, language)]>>]
     ELSE s1

\* The voices a platform may report.
HindiGoogle == [lang |-> <<"h", "i", "-", "I", "N">>, name |-> <<"G", "o", "o", "g", "l", "e", " ", "H", "i", "n", "d", "i">>]

HindiBasic == [lang |-> <<"h", "i", "-", "I", "N">>, name |-> <<"B", "a", "s", "i", "c">>]

VoicePool ==
  {HindiGoogle, HindiBasic,
   [lang |-> <<"h", "i">>, name |-> <<"P", "r", "e", "m", "i", "u", "m">>],
   [lang |-> <<"e", "n", "-", "U", "S">>, name |-> <<"E", "n", "h", "a", "n", "c", "e", "d">>],
   [lang |-> <<"e", "n", "-", "G", "B">>, name |-> <<"B", "a", "s", "i", "c">>]}

RECURSIVE VoiceListsOfLen(_)
VoiceListsOfLen(n) ==
  IF n = 0 THEN {<<>>}
  ELSE {Append(l, v) : l \in VoiceListsOfLen(n - 1), v \in VoicePool}

\* A voice appears once in the list.
VoiceLists ==
  {l \in UNION {VoiceListsOfLen(n) : n \in 0..MaxVoices} :
     \A i, k \in DOMAIN l : i # k => l[i] # l[k]}

Languages == {<<"e", "n">>, <<"t", "e">>, <<"h", "i">>, <<"t", "a">>, <<"k", "n">>, <<"f", "r">>, <<>>}

\* ------------------------------------------------------------ audio context
\* The state a newly constructed AudioContext reports (autoplay policy decides).
FreshStates == {"suspended", "running"}

\* getGlobalAudioContext that also replaces a suspended context.
getGlobalAudioContextReplacesSuspended(s, fresh) ==
  IF s.ctxState \in {"none", "closed", "suspended"}
  THEN [s EXCEPT !.ctxState = fresh, !.ctxId = @ + 1]
  ELSE s

\* audio.ts:184-196; `fresh` is the state of a context constructed by this call.
getGlobalAudioContext(s, fresh) ==
  IF s.ctxState \in {"none", "closed"}
  THEN [s EXCEPT !.ctxState = fresh, !.ctxId = @ + 1]
  ELSE s

\* ctx.resume() / ctx.suspend(): the request is queued; the platform settles it
\* later. `play` is the play call whose start waits on the promise (0: none).
ctxRequest(s, op, play) ==
  [s EXCEPT !.ctxOps = Append(@, [op |-> op, ctx |-> s.ctxId, play |-> play])]

\* startSource with a catch that only logs (no onEnded() at audio.ts:378).
startSourceSilentFailure(s, p, throws) ==
  IF throws
  THEN [s EXCEPT !.plays[p].status = "failed"]
  ELSE [s EXCEPT !.plays[p].status = "playing",
                 !.plays[p].handler = TRUE,
                 !.globalSource = p]

\* audio.ts:366-380; `throws`: creating, connecting or starting the source throws.
startSource(s, p, throws) ==
  IF throws
  THEN [s EXCEPT !.plays[p].status = "failed",
                 !.plays[p].onEndedCalls = @ + 1]
  ELSE [s EXCEPT !.plays[p].status = "playing",
                 !.plays[p].handler = TRUE,
                 !.globalSource = p]

\* History only: play call p starts its source from the catch of a rejected
\* resume() (audio.ts:357-360).
startedAfterReject(s, p) == [s EXCEPT !.plays[p].afterReject = TRUE]

\* Every modelled call passes an onEnded callback.
NewPlay(ctx) ==
  [status |-> "deferred", handler |-> FALSE, onEndedCalls |-> 0,
   ctx |-> ctx, stopSeen |-> FALSE, afterReject |-> FALSE]

\* playGlobalAudio that stops only the recorded buffer source, leaving the
\* stopped flag and the speech engine alone.
playGlobalAudioKeepsNarration(s, fresh, throws) ==
  LET s1 == IF s.globalSource # 0 THEN stopSource(s) ELSE s
      s2 == getGlobalAudioContext(s1, fresh)
      p == Len(s.plays) + 1
      s3 == [s2 EXCEPT !.plays = Append(@, NewPlay(s2.ctxId))]
  IN IF s3.ctxState = "suspended"
     THEN ctxRequest(s3, "resume", p)
     ELSE startSource(s3, p, throws)

\* audio.ts:349-364
playGlobalAudio(s, fresh, throws) ==
  LET s1 == stopGlobalAudio(s)
      s2 == getGlobalAudioContext(s1, fresh)
      p == Len(s.plays) + 1
      s3 == [s2 EXCEPT !.plays = Append(@, NewPlay(s2.ctxId))]
  IN IF s3.ctxState = "suspended"
     THEN ctxRequest(s3, "resume", p)
     ELSE startSource(s3, p, throws)

\* ------------------------------------------------------------- binary codec
\* A byte array is a sequence of bytes (0..255) with the byteOffset of the
\* Uint8Array in its underlying ArrayBuffer.
ByteValues == {0, 1, 128, 255}

RECURSIVE BytesOfLen(_)
BytesOfLen(n) ==
  IF n = 0 THEN {<<>>}
  ELSE {Append(d, b) : d \in BytesOfLen(n - 1), b \in ByteValues}

ByteArrays == UNION {BytesOfLen(n) : n \in 0..MaxBytes}

\* Element k (from 0) of the Int16Array over the bytes (audio.ts:318), on a
\* little-endian platform: two's complement of the 16 bits.
int16At(bytes, k) ==
  LET u == bytes[2 * k + 1] + 256 * bytes[2 * k + 2]
  IN IF u >= 32768 THEN u - 65536 ELSE u

\* audio.ts:307-329. slice() copies, so the truncated array starts at offset 0;
\* new Int16Array(buffer, byteOffset, length) throws a RangeError when
\* byteOffset is odd; ctx.createBuffer throws NotSupportedError for a length of
\* 0 frames. A sample int16 / 32768.0 is kept as the fraction num/den.
manualDecodePCM(pcmData, byteOffset) ==
  LET odd == Len(pcmData) % 2 # 0
      safeData == IF odd THEN SubSeq(pcmData, 1, Len(pcmData) - 1) ELSE pcmData
      safeOffset == IF odd THEN 0 ELSE byteOffset
      length == Len(safeData) \div 2
      float32 == [k \in 1..length |-> [num |-> int16At(safeData, k - 1), den |-> 32768]]
  IN IF safeOffset % 2 # 0 THEN [kind |-> "thrown", error |-> "RangeError"]
     ELSE IF length = 0 THEN [kind |-> "thrown", error |-> "NotSupportedError"]
     ELSE [kind |-> "manual", numberOfChannels |-> 1, sampleRate |-> 24000,
           samples |-> float32]

\* audio.ts:331-347. `accepts`: the platform decoder accepts the container that
\* getPcmWavData builds around the bytes; its buffer is the platform's own. A
\* throw of the manual path inside the catch rejects the promise. sampleRate
\* and numChannels are not read.
decodeAudioData(data, byteOffset, sampleRate, numChannels, accepts) ==
  IF accepts THEN [kind |-> "native"]
  ELSE LET r == manualDecodePCM(data, byteOffset)
       IN IF r.kind = "thrown" THEN [kind |-> "rejected", error |-> r.error] ELSE r

\* ---------------------------------------------------------- unlock on gesture
\* audio.ts:198-216. The silent one-sample source of lines 206-215 is started on
\* the context and never recorded in globalSource; a throw there is swallowed.
unlockAudioContext(s, fresh) ==
  LET s1 == getGlobalAudioContext(s, fresh)
  IN IF s1.ctxState = "suspended" THEN ctxRequest(s1, "resume", 0) ELSE s1

\* The silent utterance of audio.ts:30-33: it belongs to no job (job 0) and has
\* no handlers; k tells the warm-up utterances apart.
WarmupUtt(k) == [job |-> 0, chunk |-> k]

RECURSIVE SumRuns(_)
SumRuns(us) == IF us = <<>> THEN 0 ELSE Head(us).runs + SumRuns(Tail(us))

\* audio.ts:20-35
warmupTTS(s, fresh) ==
  LET s1 == unlockAudioContext(s, fresh)
      s2 == IF s1.synthPaused THEN [s1 EXCEPT !.synthPaused = FALSE] ELSE s1
  IN IF supported
     THEN [s2 EXCEPT !.synthQueue = Append(@, WarmupUtt(SumRuns(s.unlockers)))]
     ELSE s1

Triggers == {"touchstart", "click", "keydown"}

\* The unlock closure without the removeEventListener of audio.ts:232.
unlockHandlerKeepsKeydown(s, h, fresh) ==
  LET s1 == unlockAudioContext(s, fresh)
      s2 == warmupTTS(s1, fresh)
  IN [s2 EXCEPT !.unlockers[h].runs = @ + 1,
                !.unlockers[h].listening = @ \cap {"keydown"}]

\* audio.ts:226-233, the closure `unlock` of the h-th initializeAudioUnlocker
\* call: runs counts the executions of its body.
unlockHandler(s, h, fresh) ==
  LET s1 == unlockAudioContext(s, fresh)
      s2 == warmupTTS(s1, fresh)
  IN [s2 EXCEPT !.unlockers[h].runs = @ + 1,
                !.unlockers[h].listening = (((@ \ {"touchstart"}) \ {"click"}) \ {"keydown"})]

\* audio.ts:218-238: preloadVoices and onvoiceschanged change nothing here; the
\* new closure is registered on the three triggers. events is history: the
\* trigger events dispatched since the registration.
initializeAudioUnlocker(s) ==
  [s EXCEPT !.unlockers = Append(@, [listening |-> Triggers, runs |-> 0, events |-> 0])]

RECURSIVE dispatchFrom(_, _, _, _)
\* The window dispatches an event of the given kind: every closure registered
\* for it runs, in the order of registration, from the h-th on.
dispatchFrom(s, kind, fresh, h) ==
  IF h > Len(s.unlockers) THEN s
  ELSE LET s1 == [s EXCEPT !.unlockers[h].events = @ + 1]
           s2 == IF kind \in s.unlockers[h].listening THEN unlockHandler(s1, h, fresh) ELSE s1
       IN dispatchFrom(s2, kind, fresh, h + 1)

\* window.speechSynthesis.speaking: an utterance is queued or being spoken.
synthSpeaking(s) == s.synthQueue # <<>>

\* audio.ts:396-403
pauseGlobalAudio(s) ==
  LET s1 == IF s.ctxState = "running" THEN ctxRequest(s, "suspend", 0) ELSE s
  IN IF supported /\ synthSpeaking(s1) THEN [s1 EXCEPT !.synthPaused = TRUE] ELSE s1

\* audio.ts:405-412
resumeGlobalAudio(s) ==
  LET s1 == IF s.ctxState = "suspended" THEN ctxRequest(s, "resume", 0) ELSE s
  IN IF supported /\ s1.synthPaused THEN [s1 EXCEPT !.synthPaused = FALSE] ELSE s1

\* The platform settles the oldest pending resume(): resolved, the context is
\* running; rejected, its state is unchanged. Either way the continuation of
\* audio.ts:357-360 (.then(play) / .catch(... play())) starts the source.
resumeSettled(s, ok, throws) ==
  LET op == Head(s.ctxOps)
      s1 == [s EXCEPT !.ctxOps = Tail(@)]
      s2 == IF ok THEN [s1 EXCEPT !.ctxState = "running"] ELSE s1
  IN IF op.play # 0
     THEN startSource(IF ok THEN s2 ELSE startedAfterReject(s2, op.play), op.play, throws)
     ELSE s2

\* The platform settles the oldest pending suspend().
suspendSettled(s) ==
  LET op == Head(s.ctxOps)
      s1 == [s EXCEPT !.ctxOps = Tail(@)]
  IN IF op.ctx = s.ctxId /\ s.ctxState = "running"
     THEN [s1 EXCEPT !.ctxState = "suspended"] ELSE s1

\* The ended event of source p is dispatched: source.onended (audio.ts:371-373)
\* runs if it is still attached.
sourceEndedEvent(s, p, status) ==
  [s EXCEPT !.plays[p].status = status,
            !.plays[p].onEndedCalls =
               IF s.plays[p].handler THEN @ + 1 ELSE @]

\* ------------------------------------------------------------------ actions
Init ==
  /\ supported \in BOOLEAN
  /\ isStopped = FALSE
  /\ activeUtterances = <<>>
  /\ jobs = <<>>
  /\ synthQueue = <<>>
  /\ synthCancelled = {}
  /\ synthPaused = FALSE
  /\ ctxState = "none"
  /\ ctxId = 0
  /\ ctxOps = <<>>
  /\ globalSource = 0
  /\ plays = <<>>
  /\ spoken = <<>>
  /\ unlockers = <<>>
  /\ chosen = <<>>
  /\ decoded = <<>>

Speak ==
  /\ Len(jobs) < MaxSpeak
  /\ \E text \in SpeakTexts : Commit(speak(Cur, text))

\* Two longer texts, beside every text over Alphabet of up to MaxLen characters.
ExampleTexts ==
  {<<"H", "e", "l", "l", "o", ".", " ", "W", "o", "r", "l", "d", "!">>,
   <<"n", "o", " ", "p", "u", "n", "c", "t", "u", "a", "t", "i", "o", "n", " ", "h", "e", "r", "e">>}

SegmentTexts == Texts \cup ExampleTexts

\* The first speak call of the page, with any text. (How a text is cut into
\* chunks does not depend on the calls made before.)
SpeakText ==
  /\ jobs = <<>>
  /\ \E text \in SegmentTexts : Commit(speak(Cur, text))

\* The first speak call of the page, with any language and voice list.
SpeakIn ==
  /\ jobs = <<>>
  /\ \E text \in SpeakTexts, language \in Languages, voices \in VoiceLists :
       Commit(speakIn(Cur, text, language, voices))

StopGlobalAudio == Commit(stopGlobalAudio(Cur))

PlayGlobalAudio ==
  /\ Len(plays) < MaxPlay
  /\ \E fresh \in FreshStates, throws \in BOOLEAN :
       LET s == playGlobalAudio(Cur, fresh, throws)
       IN Len(s.ctxOps) <= MaxOps /\ Commit(s)

PauseGlobalAudio ==
  LET s == pauseGlobalAudio(Cur)
  IN Len(s.ctxOps) <= MaxOps /\ Commit(s)

ResumeGlobalAudio ==
  LET s == resumeGlobalAudio(Cur)
  IN Len(s.ctxOps) <= MaxOps /\ Commit(s)

\* Utterance u, at the head of the engine's queue, finishes speaking.
UtteranceEndOf(u) ==
  /\ synthQueue # <<>>
  /\ ~synthPaused
  /\ u = Head(synthQueue)
  /\ Commit(onUtteranceDone([Cur EXCEPT !.synthQueue = Tail(@)], u, FALSE))

\* The queued utterance u fails.
UtteranceErrorOf(u) ==
  /\ u \in Range(synthQueue)
  /\ Commit(onUtteranceDone([Cur EXCEPT !.synthQueue = Without(@, u)], u, TRUE))

\* The engine reports the end, or the error, of utterance u removed by cancel():
\* either handler runs, to the same effect. The history of errored chunks keeps
\* the errors of utterances that were not cancelled.
CancelledUtteranceEventOf(u) ==
  /\ u \in synthCancelled
  /\ Commit(onUtteranceDone([Cur EXCEPT !.synthCancelled = @ \ {u}], u, FALSE))

Pending == Range(synthQueue) \cup synthCancelled

UtteranceEnd == \E u \in Pending : UtteranceEndOf(u)

UtteranceError == \E u \in Pending : UtteranceErrorOf(u)

CancelledUtteranceEvent == \E u \in Pending : CancelledUtteranceEventOf(u)

ResumeResolved ==
  /\ ctxOps # <<>>
  /\ Head(ctxOps).op = "resume"
  /\ Head(ctxOps).ctx = ctxId
  /\ ctxState \in {"suspended", "running"}
  /\ \E throws \in BOOLEAN : Commit(resumeSettled(Cur, TRUE, throws))

ResumeRejected ==
  /\ ctxOps # <<>>
  /\ Head(ctxOps).op = "resume"
  /\ \E throws \in BOOLEAN : Commit(resumeSettled(Cur, FALSE, throws))

SuspendSettled ==
  /\ ctxOps # <<>>
  /\ Head(ctxOps).op = "suspend"
  /\ Commit(suspendSettled(Cur))

\* One call per behaviour: the outcome of a call depends on its arguments only.
DecodeAudioData ==
  /\ decoded = <<>>
  /\ \E data \in ByteArrays, byteOffset \in {0, 1}, sampleRate \in {24000, 44100},
        numChannels \in {1, 2}, accepts \in BOOLEAN :
       decoded' = <<[data |-> data, byteOffset |-> byteOffset, sampleRate |-> sampleRate,
                     numChannels |-> numChannels, accepts |-> accepts,
                     result |-> decodeAudioData(data, byteOffset, sampleRate,
                                                numChannels, accepts)]>>
  /\ UNCHANGED <<supported, isStopped, activeUtterances, jobs, synthQueue,
                 synthCancelled, synthPaused, ctxState, ctxId, ctxOps, globalSource,
                 plays, spoken, unlockers, chosen>>

GetGlobalAudioContext ==
  \E fresh \in FreshStates : Commit(getGlobalAudioContext(Cur, fresh))

UnlockAudioContext ==
  \E fresh \in FreshStates :
    LET s == unlockAudioContext(Cur, fresh)
    IN Len(s.ctxOps) <= MaxOps /\ Commit(s)

\* The context held is closed: by a client holding the exported context
\* (close()), or by the platform.
ContextClosed ==
  /\ ctxState \in {"suspended", "running"}
  /\ ctxId < MaxContexts
  /\ ctxState' = "closed"
  /\ UNCHANGED <<supported, isStopped, activeUtterances, jobs, synthQueue,
                 synthCancelled, synthPaused, ctxId, ctxOps, globalSource, plays,
                 spoken, unlockers, chosen, decoded>>

InitializeAudioUnlocker ==
  /\ Len(unlockers) < MaxInit
  /\ Commit(initializeAudioUnlocker(Cur))

\* The user touches, clicks or presses a key.
TriggerEvent ==
  /\ \A h \in DOMAIN unlockers : unlockers[h].events < MaxEvents
  /\ \E kind \in Triggers, fresh \in FreshStates :
       LET s == dispatchFrom(Cur, kind, fresh, 1)
       IN Len(s.ctxOps) <= MaxOps /\ Commit(s)

\* The engine is done with a warm-up utterance (spoken, failed or cancelled): it
\* has no handler.
WarmupUtteranceDone ==
  \E u \in Pending :
    /\ u.job = 0
    /\ \/ synthQueue # <<>> /\ ~synthPaused /\ u = Head(synthQueue)
       \/ u \in synthCancelled
    /\ Commit([Cur EXCEPT !.synthQueue = Without(@, u), !.synthCancelled = @ \ {u}])

\* A playing source reaches the end of its buffer (its context is rendering).
SourceEnded ==
  \E p \in DOMAIN plays :
    /\ plays[p].status = "playing"
    /\ plays[p].ctx = ctxId
    /\ ctxState = "running"
    /\ Commit(sourceEndedEvent(Cur, p, "ended"))

\* The ended event of a source stopped by source.stop() is dispatched.
SourceStopped ==
  \E p \in DOMAIN plays :
    /\ plays[p].status = "stopping"
    /\ Commit(sourceEndedEvent(Cur, p, "stopped"))

\* The calls a client of the module can make.
Calls ==
  \/ Speak
  \/ StopGlobalAudio
  \/ PlayGlobalAudio
  \/ PauseGlobalAudio
  \/ ResumeGlobalAudio

\* The events of the speech engine.
SpeechEvents ==
  \/ UtteranceEnd
  \/ UtteranceError
  \/ CancelledUtteranceEvent

\* The events of the audio context and of its sources.
AudioEvents ==
  \/ ResumeResolved
  \/ ResumeRejected
  \/ SuspendSettled
  \/ SourceEnded
  \/ SourceStopped

Next == Calls \/ SpeechEvents \/ AudioEvents

Spec == Init /\ [][Next]_vars

\* The narration track: every call, and the speech engine's events.
NextNarration == Calls \/ SpeechEvents

SpecNarration == Init /\ [][NextNarration]_vars

\* Every utterance handed to the engine gets its end or error event.
AllUtterances == {Utt(j, i) : j \in 1..MaxSpeak, i \in 0..MaxLen}

EventOf(u) == UtteranceEndOf(u) \/ UtteranceErrorOf(u) \/ CancelledUtteranceEventOf(u)

EngineDelivers == \A u \in AllUtterances : WF_vars(EventOf(u))

\* The narration track under that assumption: the calls that start, stop, pause
\* and resume narration, and the speech engine's events.
NextSpeech ==
  \/ Speak
  \/ StopGlobalAudio
  \/ PauseGlobalAudio
  \/ ResumeGlobalAudio
  \/ SpeechEvents

FairNarration == Init /\ [][NextSpeech]_vars /\ EngineDelivers

\* The buffer playback track: the calls that act on the audio context and on the
\* session slot, and the audio platform's events. (speak acts on them only
\* through the stopGlobalAudio() of audio.ts:50.)
PlaybackCalls ==
  \/ StopGlobalAudio
  \/ PlayGlobalAudio
  \/ PauseGlobalAudio
  \/ ResumeGlobalAudio

NextPlayback == PlaybackCalls \/ AudioEvents

SpecPlayback == Init /\ [][NextPlayback]_vars

\* The narration of one text: a speak call with any text, stop requests, and the
\* speech engine's events.
NextSegmentation ==
  \/ SpeakText
  \/ StopGlobalAudio
  \/ SpeechEvents

SpecSegmentation == Init /\ [][NextSegmentation]_vars

\* The unlock coordinator: registrations, user gestures, and what the handler
\* leaves pending on the platform (resume requests, the warm-up utterance),
\* with the calls that pause, resume and stop.
NextUnlock ==
  \/ InitializeAudioUnlocker
  \/ TriggerEvent
  \/ WarmupUtteranceDone
  \/ ResumeResolved
  \/ ResumeRejected
  \/ SuspendSettled
  \/ StopGlobalAudio
  \/ PauseGlobalAudio
  \/ ResumeGlobalAudio

SpecUnlock == Init /\ [][NextUnlock]_vars

\* The binary codec: decodeAudioData calls with any bytes.
SpecDecode == Init /\ [][DecodeAudioData]_vars

\* The narration in one language with one voice list: a speak call, stop
\* requests, and the speech engine's events.
NextVoice ==
  \/ SpeakIn
  \/ StopGlobalAudio
  \/ SpeechEvents

SpecVoice == Init /\ [][NextVoice]_vars

\* The life of the audio context: the calls that obtain or control it, its
\* closing, and the audio platform's events.
NextContext ==
  \/ GetGlobalAudioContext
  \/ UnlockAudioContext
  \/ PlayGlobalAudio
  \/ PauseGlobalAudio
  \/ ResumeGlobalAudio
  \/ ContextClosed
  \/ AudioEvents

SpecContext == Init /\ [][NextContext]_vars

\* ------------------------------------------------------------------- claims
\* The utterances of job j that await their end or error event.
InFlight(j) == {u \in Pending : u.job = j}

\* C1: the onEnd callback passed to a speak call is never invoked more than
\* once, whatever the interleaving of calls and utterance events and however
\* many of the job's chunks error.
C1_OnEndAtMostOnce ==
  \A j \in DOMAIN jobs : jobs[j].onEndCalls <= 1

\* C1 witness: a job of two chunks, both of which errored, has invoked onEnd.
C1_Witness ==
  \E j \in DOMAIN jobs :
    /\ jobs[j].n = 2
    /\ jobs[j].errored = {0, 1}
    /\ jobs[j].onEndCalls = 1

\* C2: if the engine delivers an end or error event for every utterance handed
\* to it (those removed by cancel included), every speak call eventually
\* invokes its onEnd, also when the job is stopped or superseded.
C2_OnEndEventually ==
  \A j \in 1..MaxSpeak :
    (Len(jobs) >= j) ~> (Len(jobs) >= j /\ jobs[j].onEndCalls >= 1)

\* C2 witness: a job that was superseded by a later speak while its chunk was in
\* flight, and one of whose chunks errored, has invoked onEnd.
C2_Witness ==
  \E j \in DOMAIN jobs :
    /\ j < Len(jobs)
    /\ jobs[j].stopSeen
    /\ jobs[j].errored # {}
    /\ jobs[j].onEndCalls = 1

\* C3: once a later speak call has been made, an earlier job is cancelled: its
\* chunk index never advances and it submits no further utterance, even when
\* the event of its in-flight utterance arrives after the later call has reset
\* the stopped flag.
C3_SupersededJobFrozen ==
  [][\A j \in DOMAIN jobs :
       j < Len(jobs) =>
         /\ jobs'[j].currentIndex = jobs[j].currentIndex
         /\ jobs'[j].submitted = jobs[j].submitted]_vars

\* The buffer sources that are started and have neither ended nor been stopped.
Playing == {p \in DOMAIN plays : plays[p].status = "playing"}

\* C4: at most one buffer source is started and not yet ended or stopped, also
\* after two playGlobalAudio calls made while the context was suspended.
C4_AtMostOnePlaying == Cardinality(Playing) <= 1

\* How many utterances of job j await their end or error event.
InFlightCount(j) ==
  Len(SelectSeq(synthQueue, LAMBDA u : u.job = j))
    + Cardinality({u \in synthCancelled : u.job = j})

\* The chunk indices 0 .. k-1 in order.
FirstChunks(k) == [i \in 1..k |-> i - 1]

\* C5: a job submits its utterances strictly in chunk order, one at a time: the
\* indices submitted are 0,1,2,... with none skipped or repeated, chunk i+1 is
\* submitted only after the event of chunk i was delivered, and the job never
\* has two utterances awaiting completion.
C5_ChunksInOrder ==
  \A j \in DOMAIN jobs :
    LET sub == jobs[j].submitted
    IN /\ sub = FirstChunks(Len(sub))
       /\ Len(sub) <= jobs[j].n
       /\ \A k \in 1..(Len(sub) - 1) : sub[k] \in jobs[j].delivered
       /\ InFlightCount(j) <= 1
       /\ \A u \in InFlight(j) : u.chunk = sub[Len(sub)]

\* C5 witness: a job has submitted chunk 0, had its event, and has chunk 1 in
\* flight.
C5_Witness ==
  \E j \in DOMAIN jobs :
    /\ jobs[j].submitted = <<0, 1>>
    /\ jobs[j].delivered = {0}
    /\ InFlight(j) = {Utt(j, 1)}

\* C6: an error on a chunk does not abort the narration: for a job that no stop
\* request (and so no later speak or play) has reached, every chunk i that
\* errored is followed at once by the submission of chunk i+1 when there is
\* one, and the job invokes onEnd only after it has submitted each of its
\* chunks exactly once, whatever subset of them errored.
C6_ErrorDoesNotAbort ==
  \A j \in DOMAIN jobs :
    ~jobs[j].stopSeen =>
      /\ \A i \in jobs[j].errored :
           i + 1 < jobs[j].n =>
             /\ Len(jobs[j].submitted) >= i + 2
             /\ jobs[j].submitted[i + 2] = i + 1
      /\ jobs[j].onEndCalls >= 1 => jobs[j].submitted = FirstChunks(jobs[j].n)

\* C6 witness: a job of two chunks whose first chunk errored, never stopped,
\* has submitted both chunks and ended.
C6_Witness ==
  \E j \in DOMAIN jobs :
    /\ jobs[j].n = 2
    /\ 0 \in jobs[j].errored
    /\ ~jobs[j].stopSeen
    /\ jobs[j].submitted = <<0, 1>>
    /\ jobs[j].onEndCalls = 1

\* The sessions stopGlobalAudio has stopped: source.stop() was called on them
\* while they played ("stopping": the ended event of the stop is still to be
\* dispatched; "stopped": it has been).
StoppedSessions == {p \in DOMAIN plays : plays[p].status \in {"stopping", "stopped"}}

\* C7: stopGlobalAudio detaches the recorded session's end callback before it
\* stops the source: the stop leaves the session slot empty, and the onEnded of
\* the stopped session is never invoked, not even by the ended event that the
\* stop itself causes.
C7_StopDetachesCallback ==
  /\ [][StopGlobalAudio => globalSource' = 0]_vars
  /\ [](\A p \in StoppedSessions :
          /\ plays[p].onEndedCalls = 0
          /\ ~plays[p].handler
          /\ globalSource # p)

\* C7 witness: the ended event of a stopped session has been dispatched and its
\* onEnded was not invoked.
C7_Witness ==
  \E p \in DOMAIN plays :
    /\ plays[p].status = "stopped"
    /\ plays[p].onEndedCalls = 0
    /\ globalSource = 0

\* C8: for a playGlobalAudio call that no stop request has followed (so neither
\* stopped nor superseded), onEnded is invoked exactly once: when the source
\* has ended naturally or when starting it threw, never both and never before;
\* and while the start waits on resume() it is not lost, so that it is
\* attempted after a rejected resume as after a resolved one.
C8_OnEndedExactlyOnce ==
  \A p \in DOMAIN plays :
    ~plays[p].stopSeen =>
      /\ plays[p].status \in {"deferred", "playing", "ended", "failed"}
      /\ plays[p].onEndedCalls = IF plays[p].status \in {"ended", "failed"} THEN 1 ELSE 0
      /\ plays[p].status = "deferred" => \E k \in DOMAIN ctxOps : ctxOps[k].play = p

\* C8 witness: a call whose resume() was rejected started its source all the
\* same, was never stopped, and its onEnded fired once when the source ended.
C8_Witness ==
  \E p \in DOMAIN plays :
    /\ plays[p].afterReject
    /\ ~plays[p].stopSeen
    /\ plays[p].status = "ended"
    /\ plays[p].onEndedCalls = 1

\* A narration job is running: it has an utterance in flight and has not
\* invoked its onEnd.
NarrationRunning == \E j \in DOMAIN jobs : jobRunning(jobs[j]) /\ InFlight(j) # {}

\* The step is a playGlobalAudio call: only that call adds a play record.
PlayCalled == Len(plays') = Len(plays) + 1

\* C9 as stated: a playGlobalAudio call made while a narration job is running
\* neither sets the stopped flag nor cancels speech synthesis.
C9_PlayLeavesNarration ==
  [][(PlayCalled /\ NarrationRunning)
       => (isStopped' = isStopped /\ synthQueue' = synthQueue)]_vars

\* C9 amended: a playGlobalAudio call performs a global stop first: it sets the
\* stopped flag and cancels speech synthesis (every queued utterance leaves the
\* queue, its event still owed); while the flag is set no utterance is queued,
\* so no job submits a further chunk, and a job whose in-flight utterance has
\* had its event has invoked onEnd.
C9_PlayStopsNarration ==
  /\ [][PlayCalled
          => /\ isStopped'
             /\ synthQueue' = <<>>
             /\ synthCancelled' = synthCancelled \cup Range(synthQueue)]_vars
  /\ [](isStopped => synthQueue = <<>>)
  /\ [](\A j \in DOMAIN jobs : InFlight(j) = {} => jobs[j].onEndCalls = 1)

\* C9 witness: a play call has been made, no stop request has followed it, and
\* a running job stands stopped with its utterance cancelled and its event owed.
C9_Witness ==
  /\ isStopped
  /\ Len(plays) = 1
  /\ playPending(plays[1]) /\ ~plays[1].stopSeen
  /\ \E j \in DOMAIN jobs :
       /\ jobRunning(jobs[j])
       /\ jobs[j].stopSeen
       /\ InFlight(j) \subseteq synthCancelled
       /\ InFlight(j) # {}

\* Nothing is active: the session slot is empty and no job is running.
Idle == globalSource = 0 /\ \A j \in DOMAIN jobs : ~jobRunning(jobs[j])

\* C10: stopGlobalAudio called with no active session and no running job
\* invokes no completion callback, leaves the session slot empty and the audio
\* context (its state, its identity, its pending requests) and the speech
\* engine untouched; a further call right after it changes nothing at all.
C10_IdleStopIsNoOp ==
  Idle =>
    LET s == stopGlobalAudio(Cur)
    IN /\ s.jobs = jobs
       /\ \A p \in DOMAIN plays : s.plays[p].onEndedCalls = plays[p].onEndedCalls
       /\ s.globalSource = 0
       /\ <<s.ctxState, s.ctxId, s.ctxOps>> = <<ctxState, ctxId, ctxOps>>
       /\ <<s.synthQueue, s.synthPaused, s.activeUtterances>>
            = <<synthQueue, synthPaused, activeUtterances>>
       /\ stopGlobalAudio(s) = s

\* C10 witness: the stopped flag is set although the last job ran to its end
\* without seeing a stop and no play call was ever made: stopGlobalAudio was
\* called when nothing was active.
C10_Witness ==
  /\ isStopped
  /\ Idle
  /\ plays = <<>>
  /\ jobs # <<>>
  /\ jobs[Len(jobs)].n >= 1
  /\ ~jobs[Len(jobs)].stopSeen

RECURSIVE settleAll(_)
\* The platform settles every pending context request, oldest first, each one
\* succeeding.
settleAll(s) ==
  IF s.ctxOps = <<>> THEN s
  ELSE IF Head(s.ctxOps).op = "suspend" THEN settleAll(suspendSettled(s))
  ELSE settleAll(resumeSettled(s, TRUE, FALSE))

\* C11: pauseGlobalAudio followed by resumeGlobalAudio on a running context
\* (no request pending on it) returns the context to running once the platform
\* has settled the requests the two calls made, and the two calls keep the
\* context instance, the session slot, the stopped flag, and each job's chunk
\* index and the in-flight utterance list.
C11_PauseResumeRunning ==
  (ctxState = "running" /\ ctxOps = <<>>) =>
    LET s1 == pauseGlobalAudio(Cur)
        s2 == resumeGlobalAudio(s1)
    IN /\ settleAll(s2).ctxState = "running"
       /\ s2.ctxId = ctxId
       /\ s2.globalSource = globalSource
       /\ s2.isStopped = isStopped
       /\ s2.jobs = jobs
       /\ s2.activeUtterances = activeUtterances

\* C12: speak called with the empty string (speech synthesis supported)
\* produces zero chunks, has invoked onEnd when it returns and submits no
\* utterance to the speech engine.
C12_EmptyTextNoChunks ==
  (supported /\ spoken # <<>> /\ spoken[1].text = <<>>) =>
    /\ spoken[1].chunks = <<>>
    /\ jobs[Len(jobs)].submitted = <<>>
    /\ jobs[Len(jobs)].onEndCalls = 1

\* C13: once initializeAudioUnlocker has registered its handler, the handler
\* body has run exactly once as soon as one touchstart, click or keydown event
\* has been dispatched, and not before; it then listens on none of the three
\* triggers, and until then on all three, so no later event runs it again.
C13_UnlockRunsOnce ==
  \A h \in DOMAIN unlockers :
    /\ unlockers[h].runs = (IF unlockers[h].events >= 1 THEN 1 ELSE 0)
    /\ unlockers[h].listening = (IF unlockers[h].runs = 0 THEN Triggers ELSE {})

\* C13 witness: a handler has seen three events and its body has run once.
C13_Witness ==
  \E h \in DOMAIN unlockers :
    /\ unlockers[h].events = MaxEvents
    /\ unlockers[h].runs = 1

\* The little-endian signed 16-bit value of two bytes.
SignedLE(b0, b1) == ((b0 + 256 * b1 + 32768) % 65536) - 32768

\* C14: decodeAudioData returns the platform decoder's buffer when the decoder
\* accepts the container; when it rejects, the call does not reject and returns
\* a one-channel 24000 Hz buffer of floor(n/2) samples for n bytes, sample k
\* being the little-endian signed 16-bit value of bytes 2k and 2k+1 over 32768,
\* whatever sample rate and channel count were passed.
C14_DecodeAsSpecified ==
  decoded # <<>> =>
    LET d == decoded[1]
        r == d.result
        n == Len(d.data)
    IN IF d.accepts THEN r.kind = "native"
       ELSE /\ r.kind = "manual"
            /\ r.numberOfChannels = 1
            /\ r.sampleRate = 24000
            /\ Len(r.samples) = n \div 2
            /\ \A k \in 0..(n \div 2) - 1 :
                 r.samples[k + 1] =
                   [num |-> SignedLE(d.data[2 * k + 1], d.data[2 * k + 2]), den |-> 32768]

\* The terminal characters as the claim lists them: . ! ? | danda, newline.
ClaimedTerminals == {".", "!", "?", "|", "U+0964", "\n"}

RECURSIVE ClaimedRunEnd(_, _, _)
ClaimedRunEnd(text, p, term) ==
  IF p > Len(text) \/ ((text[p] \in ClaimedTerminals) # term) THEN p - 1
  ELSE ClaimedRunEnd(text, p + 1, term)

RECURSIVE ClaimedRuns(_, _)
\* Each maximal run of non-terminal characters from position p on, with the run
\* of terminal characters that follows it.
ClaimedRuns(text, p) ==
  IF p > Len(text) THEN <<>>
  ELSE IF text[p] \in ClaimedTerminals THEN ClaimedRuns(text, p + 1)
  ELSE LET e1 == ClaimedRunEnd(text, p, FALSE)
           e2 == ClaimedRunEnd(text, e1 + 1, TRUE)
       IN <<SubSeq(text, p, e2)>> \o ClaimedRuns(text, e2 + 1)

ClaimedChunks(text) ==
  LET runs == ClaimedRuns(text, 1)
  IN DropEmpty([i \in 1..Len(runs) |-> Trim(runs[i])])

\* C15: the chunk list speak builds for a text is, in order, one chunk per
\* maximal run of non-terminal characters with the terminal run after it,
\* trimmed, the empty ones dropped; "Hello. World!" gives "Hello." and
\* "World!", and a text without terminal characters gives the trimmed text as
\* its only chunk.
C15_ChunksAsSpecified ==
  spoken # <<>> =>
    LET text == spoken[1].text
        chunks == spoken[1].chunks
    IN /\ chunks = ClaimedChunks(text)
       /\ text = <<"H", "e", "l", "l", "o", ".", " ", "W", "o", "r", "l", "d", "!">> => chunks = <<<<"H", "e", "l", "l", "o", ".">>, <<"W", "o", "r", "l", "d", "!">>>>
       /\ (\A i \in DOMAIN text : text[i] \notin ClaimedTerminals) => chunks = <<Trim(text)>>

\* The least index of a set of indices (0 when there is none).
First(I) == IF I = {} THEN 0 ELSE CHOOSE i \in I : \A k \in I : i <= k

\* C16: for every voice list and language code, the job's locale tag is the
\* table's (en-US for a code outside it) and its voice is the first with that
\* tag and a name containing Google, Enhanced or Premium, else the first with
\* that tag, else the first whose lang starts with the code, else none; it is
\* selected by the speak call and kept for all the chunks of the job. With
\* Google Hindi and Basic, both hi-IN, in either order, code hi selects Google
\* Hindi.
C16_VoiceSelection ==
  /\ [](chosen # <<>> =>
         LET c == chosen[1]
             tag == CASE c.language = <<"h", "i">> -> <<"h", "i", "-", "I", "N">>
                      [] c.language = <<"e", "n">> -> <<"e", "n", "-", "U", "S">>
                      [] c.language = <<"t", "e">> -> <<"t", "e", "-", "I", "N">>
                      [] c.language = <<"t", "a">> -> <<"t", "a", "-", "I", "N">>
                      [] c.language = <<"k", "n">> -> <<"k", "n", "-", "I", "N">>
                      [] OTHER -> <<"e", "n", "-", "U", "S">>
             V == DOMAIN c.voices
             quality == {i \in V : /\ c.voices[i].lang = tag
                                   /\ \/ Includes(c.voices[i].name, <<"G", "o", "o", "g", "l", "e">>)
                                      \/ Includes(c.voices[i].name, <<"E", "n", "h", "a", "n", "c", "e", "d">>)
                                      \/ Includes(c.voices[i].name, <<"P", "r", "e", "m", "i", "u", "m">>)}
             exact == {i \in V : c.voices[i].lang = tag}
             prefix == {i \in V : StartsWith(c.voices[i].lang, c.language)}
         IN /\ c.targetLang = tag
            /\ c.voice = (IF quality # {} THEN First(quality)
                          ELSE IF exact # {} THEN First(exact)
                          ELSE First(prefix))
            /\ (c.language = <<"h", "i">> /\ Range(c.voices) = {HindiGoogle, HindiBasic})
                 => c.voices[c.voice] = HindiGoogle)
  /\ [][Len(jobs') = Len(jobs) => chosen' = chosen]_vars

\* C16 witness: with Basic listed before Google Hindi, a job in language hi
\* has selected Google Hindi and has finished its two chunks.
C16_Witness ==
  /\ chosen # <<>>
  /\ chosen[1].language = <<"h", "i">>
  /\ chosen[1].voices = <<HindiBasic, HindiGoogle>>
  /\ chosen[1].voice = 2
  /\ jobs[1].n = 2
  /\ jobs[1].delivered = {0, 1}
  /\ jobs[1].onEndCalls = 1

\* C17: once a stop request has reached a running job and no speak call has
\* followed, the job has no utterance in the engine's queue (the queue was
\* cleared and the job submits nothing more); its in-flight utterance is
\* cancelled with its event owed, and when that event has been handled the job
\* has invoked onEnd without submitting the next chunk.
C17_StopAtChunkBoundary ==
  \A j \in DOMAIN jobs :
    (j = Len(jobs) /\ jobs[j].stopSeen) =>
      /\ \A u \in Range(synthQueue) : u.job # j
      /\ InFlight(j) \subseteq synthCancelled
      /\ Cardinality(InFlight(j)) <= 1
      /\ InFlight(j) = {} =>
           /\ jobs[j].onEndCalls = 1
           /\ jobs[j].delivered = Range(jobs[j].submitted)

\* C17 witness: a job of two chunks was stopped during its first chunk; the
\* event of that chunk has been handled, the job has invoked onEnd and its
\* second chunk was never submitted.
C17_Witness ==
  /\ jobs # <<>>
  /\ jobs[Len(jobs)].stopSeen
  /\ jobs[Len(jobs)].n = 2
  /\ jobs[Len(jobs)].submitted = <<0>>
  /\ jobs[Len(jobs)].delivered = {0}
  /\ jobs[Len(jobs)].onEndCalls = 1

\* C18: after a stop request, and until another playGlobalAudio call is made,
\* no source of an earlier playGlobalAudio call is playing, also when the start
\* of that call was still deferred on the context's resume at the stop.
C18_NoSourceAfterStop ==
  \A p \in DOMAIN plays :
    (p = Len(plays) /\ plays[p].stopSeen) => plays[p].status # "playing"

\* C19: a recorded session refers to a source that is still playing: once a
\* source has ended naturally and its onEnded has fired, the session slot is
\* empty.
C19_SlotClearedOnEnd ==
  /\ globalSource # 0 => plays[globalSource].status = "playing"
  /\ \A p \in DOMAIN plays :
       (plays[p].status = "ended" /\ plays[p].onEndedCalls >= 1) => globalSource = 0

\* The context instance and state after a call equal those before it.
SameContext(s) == s.ctxId = ctxId /\ s.ctxState = ctxState

\* The call has constructed a new instance, in the state the platform gives it
\* (a resume requested on it has not settled yet).
NewContext(s, fresh) == s.ctxId = ctxId + 1 /\ s.ctxState = fresh

\* C20: a call of getGlobalAudioContext, unlockAudioContext or playGlobalAudio
\* made while the held context is suspended or running keeps that instance; made
\* while there is none or it is closed, it constructs a new instance that
\* replaces it; pauseGlobalAudio and resumeGlobalAudio never construct one; and
\* no step replaces an instance that is not closed, so at most one non-closed
\* context is held at any time.
C20_ContextCreatedWhenClosed ==
  /\ [](\A fresh \in FreshStates :
          LET got == getGlobalAudioContext(Cur, fresh)
              unlocked == unlockAudioContext(Cur, fresh)
              played == playGlobalAudio(Cur, fresh, FALSE)
          IN /\ ctxState \in {"suspended", "running"} =>
                  SameContext(got) /\ SameContext(unlocked) /\ SameContext(played)
             /\ ctxState \in {"none", "closed"} =>
                  /\ NewContext(got, fresh)
                  /\ NewContext(unlocked, fresh)
                  /\ NewContext(played, fresh)
             /\ SameContext(pauseGlobalAudio(Cur))
             /\ SameContext(resumeGlobalAudio(Cur)))
  /\ [][ctxId' # ctxId => (ctxState \in {"none", "closed"} /\ ctxId' = ctxId + 1
                             /\ ctxState' \in FreshStates)]_vars

\* C20 witness: the first context was closed and a later playGlobalAudio call
\* constructed the second one, on which its source plays.
C20_Witness ==
  /\ ctxId = 2
  /\ ctxState = "running"
  /\ \E p \in DOMAIN plays : plays[p].ctx = 2 /\ plays[p].status = "playing"
  /\ \E p \in DOMAIN plays : plays[p].ctx = 1

====
